---- MODULE Spec2Model ----
(***************************************************************************)
(* A model of the crypto signal bot:                                       *)
(*   - the three analysis leaves and TradingBot.analyze_market (main.py,   *)
(*     technical_analysis.py, pattern_recognition.py,                      *)
(*     sentiment_analysis.py), checked under SpecFusion;                   *)
(*   - the cooldown gatekeeper of SignalBroadcaster.generate_signal        *)
(*     (signal_broadcaster.py), checked under SpecGate;                    *)
(*   - SignalBroadcaster with the monitoring tasks that main.py's start    *)
(*     and stop handlers create and cancel: one chat under Spec, several   *)
(*     chats on the same broadcaster under SpecShared, one chat on a fair  *)
(*     event loop under SpecLoop and, over more than 24 hours, under       *)
(*     SpecExpiry;                                                         *)
(*   - the /analyze command beside the monitoring loop, under SpecAnalyze; *)
(*   - the pattern checks of PatternRecognizer on the rows of a dataframe,  *)
(*     under SpecPattern;                                                  *)
(*   - generate_signal on every outcome of its four checks, under          *)
(*     SpecStrength;                                                       *)
(*   - the commands main() registers handlers for, under SpecCommands;     *)
(*   - start_monitoring and stop_monitoring calls on one broadcaster,      *)
(*     under SpecMonitor;                                                  *)
(*   - last_signals and profit_tracking over the cooldown and the 24       *)
(*     hours, on candles of two prices, under SpecTracking.                *)
(***************************************************************************)
EXTENDS Integers, Sequences, FiniteSets, TLC

VARIABLES
    \* ---- analyze_market (SpecFusion) ----
    fpc,        \* "ready" before TradingBot.analyze_market ran, "done" after
                \* it returned, "again" after it returned a second time,
                \* "raised" after it raised
    series,     \* the candles of df: "full", or "empty" (no row)
    candles,    \* the rows of the df handed to PatternRecognizer.analyze
    votes,      \* the four indicator signals of the technical leaf
    fired,      \* the pattern checks that returned True
    news,       \* _analyze_news' average polarity, in thousandths
    signals,    \* analyze_market's dict of the three leaf results
    result,     \* analyze_market's return value
    \* ---- SignalBroadcaster and main.py's handlers (Spec) ----
    now,              \* datetime.now().timestamp(), in seconds
    nticks,           \* how many times the clock advanced
    application,      \* whether bot.application is set (TradingBot.send_message)
    running,          \* SignalBroadcaster.running
    session,          \* SignalBroadcaster.session: 0 for None, k for the k-th
                      \* aiohttp.ClientSession that start_monitoring created
    last_signals,     \* SignalBroadcaster.last_signals: pair -> signal record
    profit_tracking,  \* SignalBroadcaster.profit_tracking, in insertion order
    active_monitors,  \* main.py's active_monitors: the chats with a task
    mpc,              \* per chat: where its monitoring task is suspended
    midx,             \* per chat: index in TRADING_PAIRS of the pair in analysis
    msigs,            \* per chat: the signals of this cycle not yet sent
    ppc,              \* per profit-tracking task: where it is suspended
    piter,            \* per profit-tracking task: its dict iterator and entry
    lastCall,         \* the last generate_signal call: arguments and return
    accepted,         \* pair -> timestamps of the signals generate_signal returned
    undelivered,      \* <<pair, timestamp>> of the returned signals not delivered
    broadcasted       \* <<pair, timestamp>> of the signals that broadcast_signals
                      \* logged as "Broadcasted signal"

fusionVars == <<fpc, series, candles, votes, fired, news, signals, result>>

clockVars == <<now, nticks>>

gateVars == <<last_signals, profit_tracking, accepted>>

monitorVars == <<active_monitors, mpc, midx, msigs>>

profitVars == <<ppc, piter>>

broadcasterVars ==
    <<clockVars, application, running, session, gateVars, lastCall, monitorVars,
      profitVars, undelivered, broadcasted>>

vars == <<fusionVars, broadcasterVars>>

(***************************************************************************)
(* Values.  config.SignalType / config.ConfidenceLevel are plain classes   *)
(* whose attributes are str; core_types.SignalType / ConfidenceLevel are   *)
(* Enum classes.  Python's == between a str and an Enum member is False,   *)
(* so a value carries the class it is an instance of.                      *)
(***************************************************************************)
ConfigSignalType(n) == [cls |-> "str", v |-> n]

ConfigConfidenceLevel(n) == [cls |-> "str", v |-> n]

CoreSignalType(n) == [cls |-> "SignalType", v |-> n]

CoreConfidenceLevel(n) == [cls |-> "ConfidenceLevel", v |-> n]

\* A mutant of PyEq: comparison by the member's value (as a str-mixin Enum
\* would compare), whatever the class.
PyEqByValue(a, b) == a.v = b.v

\* Python's == on these values: same class and same member.
PyEq(a, b) == a = b

Leaves == {"technical", "pattern", "sentiment"}

(***************************************************************************)
(* Technical leaf: TechnicalAnalyzer.analyze over the four indicator       *)
(* signals (each config.SignalType.BUY / SELL / HOLD).                     *)
(***************************************************************************)
Indicators == {"rsi", "macd", "ema", "bb"}

IndicatorSignals == {ConfigSignalType("BUY"), ConfigSignalType("SELL"), ConfigSignalType("HOLD")}

\* A mutant of TechnicalAnalyzer_analyze: the test for one bullish
\* indicator comes before the test for two bearish ones.
TechnicalAnalyzer_analyzeBullFirst(sigs) ==
    LET bullish == Cardinality({i \in Indicators : PyEq(sigs[i], ConfigSignalType("BUY"))})
        bearish == Cardinality({i \in Indicators : PyEq(sigs[i], ConfigSignalType("SELL"))})
    IN  IF bullish >= 3 THEN [sig |-> ConfigSignalType("BUY"), conf |-> ConfigConfidenceLevel("HIGH")]
        ELSE IF bearish >= 3 THEN [sig |-> ConfigSignalType("SELL"), conf |-> ConfigConfidenceLevel("HIGH")]
        ELSE IF bullish = 2 THEN [sig |-> ConfigSignalType("BUY"), conf |-> ConfigConfidenceLevel("MEDIUM")]
        ELSE IF bullish = 1 THEN [sig |-> ConfigSignalType("BUY"), conf |-> ConfigConfidenceLevel("LOW")]
        ELSE IF bearish = 2 THEN [sig |-> ConfigSignalType("SELL"), conf |-> ConfigConfidenceLevel("MEDIUM")]
        ELSE IF bearish = 1 THEN [sig |-> ConfigSignalType("SELL"), conf |-> ConfigConfidenceLevel("LOW")]
        ELSE [sig |-> ConfigSignalType("HOLD"), conf |-> ConfigConfidenceLevel("NONE")]

TechnicalAnalyzer_analyze(sigs) ==
    LET bullish == Cardinality({i \in Indicators : PyEq(sigs[i], ConfigSignalType("BUY"))})
        bearish == Cardinality({i \in Indicators : PyEq(sigs[i], ConfigSignalType("SELL"))})
    IN  IF bullish >= 3 THEN [sig |-> ConfigSignalType("BUY"), conf |-> ConfigConfidenceLevel("HIGH")]
        ELSE IF bearish >= 3 THEN [sig |-> ConfigSignalType("SELL"), conf |-> ConfigConfidenceLevel("HIGH")]
        ELSE IF bullish = 2 THEN [sig |-> ConfigSignalType("BUY"), conf |-> ConfigConfidenceLevel("MEDIUM")]
        ELSE IF bearish = 2 THEN [sig |-> ConfigSignalType("SELL"), conf |-> ConfigConfidenceLevel("MEDIUM")]
        ELSE IF bullish = 1 THEN [sig |-> ConfigSignalType("BUY"), conf |-> ConfigConfidenceLevel("LOW")]
        ELSE IF bearish = 1 THEN [sig |-> ConfigSignalType("SELL"), conf |-> ConfigConfidenceLevel("LOW")]
        ELSE [sig |-> ConfigSignalType("HOLD"), conf |-> ConfigConfidenceLevel("NONE")]

(***************************************************************************)
(* Pattern leaf: PatternRecognizer.analyze over the set of pattern checks  *)
(* that fired.  Base confidences are in tenths (0.8 -> 8).                 *)
(***************************************************************************)
BullishPatterns ==
    {"bullish_engulfing", "morning_star", "double_bottom",
     "inverse_head_and_shoulders", "uptrend"}

BearishPatterns ==
    {"bearish_engulfing", "evening_star", "double_top",
     "head_and_shoulders", "downtrend"}

PatternConfidence(p) ==
    CASE p \in {"bullish_engulfing", "bearish_engulfing"} -> 8
      [] p \in {"morning_star", "evening_star"} -> 9
      [] p \in {"double_bottom", "double_top"} -> 7
      [] p \in {"head_and_shoulders", "inverse_head_and_shoulders"} -> 8
      [] p \in {"uptrend", "downtrend"} -> 6

MaxConfidence(ps) == CHOOSE m \in {PatternConfidence(p) : p \in ps} :
                        \A p \in ps : PatternConfidence(p) <= m

\* A mutant of PatternRecognizer_analyze: equal strongest confidences go to
\* the bullish side.
PatternRecognizer_analyzeTieBuys(f) ==
    LET bullish_patterns == f \cap BullishPatterns
        bearish_patterns == f \cap BearishPatterns
    IN  IF bullish_patterns # {} /\ bearish_patterns = {}
          THEN [sig |-> CoreSignalType("BUY"), conf |-> CoreConfidenceLevel("HIGH")]
        ELSE IF bearish_patterns # {} /\ bullish_patterns = {}
          THEN [sig |-> CoreSignalType("SELL"), conf |-> CoreConfidenceLevel("HIGH")]
        ELSE IF bullish_patterns # {} /\ bearish_patterns # {}
          THEN IF MaxConfidence(bullish_patterns) >= MaxConfidence(bearish_patterns)
                 THEN [sig |-> CoreSignalType("BUY"), conf |-> CoreConfidenceLevel("MEDIUM")]
                 ELSE [sig |-> CoreSignalType("SELL"), conf |-> CoreConfidenceLevel("MEDIUM")]
        ELSE [sig |-> CoreSignalType("HOLD"), conf |-> CoreConfidenceLevel("NONE")]

PatternRecognizer_analyze(f) ==
    LET bullish_patterns == f \cap BullishPatterns
        bearish_patterns == f \cap BearishPatterns
    IN  IF bullish_patterns # {} /\ bearish_patterns = {}
          THEN [sig |-> CoreSignalType("BUY"), conf |-> CoreConfidenceLevel("HIGH")]
        ELSE IF bearish_patterns # {} /\ bullish_patterns = {}
          THEN [sig |-> CoreSignalType("SELL"), conf |-> CoreConfidenceLevel("HIGH")]
        ELSE IF bullish_patterns # {} /\ bearish_patterns # {}
          THEN IF MaxConfidence(bullish_patterns) > MaxConfidence(bearish_patterns)
                 THEN [sig |-> CoreSignalType("BUY"), conf |-> CoreConfidenceLevel("MEDIUM")]
                 ELSE [sig |-> CoreSignalType("SELL"), conf |-> CoreConfidenceLevel("MEDIUM")]
        ELSE [sig |-> CoreSignalType("HOLD"), conf |-> CoreConfidenceLevel("NONE")]

(***************************************************************************)
(* The pattern checks of PatternRecognizer on the rows of df.  A row is    *)
(* [open, high, low, close]; c[Len(c)] is df.iloc[-1].  Ratios are         *)
(* compared after clearing the denominators: |a - b| / a < 0.02 is         *)
(* 50 * |a - b| < a, body2 < body1 * 0.3 is 10 * body2 < 3 * body1.        *)
(***************************************************************************)
Abs(x) == IF x < 0 THEN -x ELSE x

body(r) == Abs(r.close - r.open)

\* df.tail(n)
Tail_n(c, n) == IF Len(c) <= n THEN c ELSE SubSeq(c, Len(c) - n + 1, Len(c))

_check_bullish_engulfing(c) ==
    IF Len(c) < 2 THEN FALSE
    ELSE LET prev_candle == c[Len(c) - 1]
             curr_candle == c[Len(c)]
         IN  /\ prev_candle.close < prev_candle.open
             /\ curr_candle.close > curr_candle.open
             /\ curr_candle.open < prev_candle.close
             /\ curr_candle.close > prev_candle.open

_check_bearish_engulfing(c) ==
    IF Len(c) < 2 THEN FALSE
    ELSE LET prev_candle == c[Len(c) - 1]
             curr_candle == c[Len(c)]
         IN  /\ prev_candle.close > prev_candle.open
             /\ curr_candle.close < curr_candle.open
             /\ curr_candle.open > prev_candle.close
             /\ curr_candle.close < prev_candle.open

_check_morning_star(c) ==
    IF Len(c) < 3 THEN FALSE
    ELSE LET first == c[Len(c) - 2]
             second == c[Len(c) - 1]
             third == c[Len(c)]
         IN  /\ first.close < first.open
             /\ 10 * body(second) < 3 * body(first)
             /\ third.close > third.open
             /\ 2 * third.close > first.open + first.close

_check_evening_star(c) ==
    IF Len(c) < 3 THEN FALSE
    ELSE LET first == c[Len(c) - 2]
             second == c[Len(c) - 1]
             third == c[Len(c)]
         IN  /\ first.close > first.open
             /\ 10 * body(second) < 3 * body(first)
             /\ third.close < third.open
             /\ 2 * third.close < first.open + first.close

\* The values v[i] (high, or -low for a trough) of the rows that exceed their
\* k neighbours on both sides, in row order: the peaks list of the checks.
RECURSIVE PeaksFrom(_, _, _)
PeaksFrom(v, k, i) ==
    IF i > Len(v) - k THEN <<>>
    ELSE (IF \A d \in 1..k : v[i] > v[i - d] /\ v[i] > v[i + d] THEN <<v[i]>> ELSE <<>>)
            \o PeaksFrom(v, k, i + 1)

Peaks(v, k) == PeaksFrom(v, k, k + 1)

Highs(c) == [i \in 1..Len(c) |-> c[i].high]

NegLows(c) == [i \in 1..Len(c) |-> -c[i].low]

SeqMax(q) == CHOOSE m \in {q[i] : i \in 1..Len(q)} : \A i \in 1..Len(q) : q[i] <= m

\* q without the first occurrence of x.
WithoutFirst(q, x) ==
    LET at == CHOOSE i \in 1..Len(q) : q[i] = x /\ \A j \in 1..(i - 1) : q[j] # x
    IN  [j \in 1..(Len(q) - 1) |-> IF j < at THEN q[j] ELSE q[j + 1]]

\* peaks.sort(key=lambda x: x[1], reverse=True): the heights, highest first.
RECURSIVE SortedDesc(_)
SortedDesc(q) ==
    IF q = <<>> THEN <<>>
    ELSE <<SeqMax(q)>> \o SortedDesc(WithoutFirst(q, SeqMax(q)))

\* The two highest peaks of the last 20 rows are within 2% of each other.
DoubleOn(v) ==
    IF Len(v) < 20 THEN FALSE
    ELSE LET peaks == SortedDesc(Peaks(Tail_n(v, 20), 1))
         IN  IF Len(peaks) >= 2
               THEN 50 * Abs(peaks[1] - peaks[2]) < Abs(peaks[1])
               ELSE FALSE

_check_double_top(c) == DoubleOn(Highs(c))

_check_double_bottom(c) == DoubleOn(NegLows(c))

\* left_shoulder, head, right_shoulder = peaks[:3] of the sorted peaks of the
\* last 30 rows: the head is the second of the sorted list.
HeadShouldersOn(v) ==
    IF Len(v) < 30 THEN FALSE
    ELSE LET peaks == SortedDesc(Peaks(Tail_n(v, 30), 2))
         IN  IF Len(peaks) >= 3
               THEN LET left_shoulder == peaks[1]
                        head == peaks[2]
                        right_shoulder == peaks[3]
                    IN  /\ head > left_shoulder
                        /\ head > right_shoulder
                        /\ 50 * Abs(left_shoulder - right_shoulder) < Abs(left_shoulder)
               ELSE FALSE

_check_head_and_shoulders(c) == HeadShouldersOn(Highs(c))

_check_inverse_head_and_shoulders(c) == HeadShouldersOn(NegLows(c))

\* The sum of close over the w rows that end at row i: w times the rolling
\* mean of window w at row i.
RECURSIVE RollingSum(_, _, _)
RollingSum(c, i, w) == IF w = 0 THEN 0 ELSE c[i].close + RollingSum(c, i - 1, w - 1)

\* sma_50 of the last row is NaN on fewer than 50 rows, and every comparison
\* with NaN is False.  close > sma_20 > sma_50, and the last five sma_20 do
\* not decrease.
_check_uptrend(c) ==
    IF Len(c) < 50 THEN FALSE
    ELSE LET n == Len(c)
         IN  /\ 20 * c[n].close > RollingSum(c, n, 20)
             /\ 50 * RollingSum(c, n, 20) > 20 * RollingSum(c, n, 50)
             /\ \A j \in (n - 4)..(n - 1) : RollingSum(c, j, 20) <= RollingSum(c, j + 1, 20)

_check_downtrend(c) ==
    IF Len(c) < 50 THEN FALSE
    ELSE LET n == Len(c)
         IN  /\ 20 * c[n].close < RollingSum(c, n, 20)
             /\ 50 * RollingSum(c, n, 20) < 20 * RollingSum(c, n, 50)
             /\ \A j \in (n - 4)..(n - 1) : RollingSum(c, j, 20) >= RollingSum(c, j + 1, 20)

\* The names PatternRecognizer.analyze appends for the rows c.
FiredOn(c) ==
    {p \in BullishPatterns \cup BearishPatterns :
        CASE p = "bullish_engulfing" -> _check_bullish_engulfing(Tail_n(c, 3))
          [] p = "bearish_engulfing" -> _check_bearish_engulfing(Tail_n(c, 3))
          [] p = "morning_star" -> _check_morning_star(Tail_n(c, 3))
          [] p = "evening_star" -> _check_evening_star(Tail_n(c, 3))
          [] p = "double_bottom" -> _check_double_bottom(c)
          [] p = "double_top" -> _check_double_top(c)
          [] p = "head_and_shoulders" -> _check_head_and_shoulders(c)
          [] p = "inverse_head_and_shoulders" -> _check_inverse_head_and_shoulders(c)
          [] p = "uptrend" -> _check_uptrend(c)
          [] p = "downtrend" -> _check_downtrend(c)}

(***************************************************************************)
(* Sentiment leaf: SentimentAnalyzer.analyze.  Polarities are in           *)
(* thousandths; combined = (news + social) / 2 is compared as              *)
(* news + social against twice the threshold.                              *)
(***************************************************************************)
HighSentiment == 300

MediumSentiment == 100

\* _get_tweets and _get_reddit_posts are placeholders returning [], so the
\* average over no sentiments is 0.
analyze_social_media == 0

\* A mutant of SentimentAnalyzer_analyze: the thresholds are inclusive.
SentimentAnalyzer_analyzeInclusive(news_sentiment) ==
    LET twice == news_sentiment + analyze_social_media
    IN  IF twice >= 2 * HighSentiment
          THEN [sig |-> CoreSignalType("BUY"), conf |-> CoreConfidenceLevel("HIGH")]
        ELSE IF twice <= -(2 * HighSentiment)
          THEN [sig |-> CoreSignalType("SELL"), conf |-> CoreConfidenceLevel("HIGH")]
        ELSE IF twice >= 2 * MediumSentiment
          THEN [sig |-> CoreSignalType("BUY"), conf |-> CoreConfidenceLevel("MEDIUM")]
        ELSE IF twice <= -(2 * MediumSentiment)
          THEN [sig |-> CoreSignalType("SELL"), conf |-> CoreConfidenceLevel("MEDIUM")]
        ELSE [sig |-> CoreSignalType("HOLD"), conf |-> CoreConfidenceLevel("NONE")]

SentimentAnalyzer_analyze(news_sentiment) ==
    LET twice == news_sentiment + analyze_social_media
    IN  IF twice > 2 * HighSentiment
          THEN [sig |-> CoreSignalType("BUY"), conf |-> CoreConfidenceLevel("HIGH")]
        ELSE IF twice < -(2 * HighSentiment)
          THEN [sig |-> CoreSignalType("SELL"), conf |-> CoreConfidenceLevel("HIGH")]
        ELSE IF twice > 2 * MediumSentiment
          THEN [sig |-> CoreSignalType("BUY"), conf |-> CoreConfidenceLevel("MEDIUM")]
        ELSE IF twice < -(2 * MediumSentiment)
          THEN [sig |-> CoreSignalType("SELL"), conf |-> CoreConfidenceLevel("MEDIUM")]
        ELSE [sig |-> CoreSignalType("HOLD"), conf |-> CoreConfidenceLevel("NONE")]

(***************************************************************************)
(* TradingBot.analyze_market: the tally and the decision over the dict of  *)
(* leaf results.  main.py's SignalType is core_types.SignalType.           *)
(***************************************************************************)
bullish_count(s) == Cardinality({l \in Leaves : PyEq(s[l].sig, CoreSignalType("BUY"))})

bearish_count(s) == Cardinality({l \in Leaves : PyEq(s[l].sig, CoreSignalType("SELL"))})

analyze_market(s) ==
    IF bullish_count(s) >= 2
      THEN [sig |-> CoreSignalType("BUY"), conf |-> CoreConfidenceLevel("HIGH")]
    ELSE IF bearish_count(s) >= 2
      THEN [sig |-> CoreSignalType("SELL"), conf |-> CoreConfidenceLevel("HIGH")]
    ELSE IF bullish_count(s) = 1
      THEN [sig |-> CoreSignalType("BUY"), conf |-> CoreConfidenceLevel("MEDIUM")]
    ELSE IF bearish_count(s) = 1
      THEN [sig |-> CoreSignalType("SELL"), conf |-> CoreConfidenceLevel("MEDIUM")]
    ELSE [sig |-> CoreSignalType("HOLD"), conf |-> CoreConfidenceLevel("NONE")]

\* TechnicalAnalyzer.analyze has no try: df['close'].iloc[-1] of a dataframe
\* without rows raises IndexError, and analyze_market has no try either.
TechnicalAnalyzer_raises(sr) == sr = "empty"

\* The leaf results analyze_market collects for given inputs.
LeafSignals(vs, f, n) ==
    [l \in Leaves |->
        CASE l = "technical" -> TechnicalAnalyzer_analyze(vs)
          [] l = "pattern" -> PatternRecognizer_analyze(f)
          [] l = "sentiment" -> SentimentAnalyzer_analyze(n)]

(***************************************************************************)
(* SignalBroadcaster (signal_broadcaster.py) and the start / stop command  *)
(* handlers of main.py, which run SignalBroadcaster.start_monitoring as    *)
(* one asyncio task per chat on the module-level broadcaster.              *)
(***************************************************************************)
signal_cooldown == 7200

MIN_SIGNAL_INTERVAL == 3600

SIGNAL_EXPIRY == 7200

\* update_profit_tracking tracks an entry for 24 hours.
ProfitWindow == 86400

\* The head of config.TRADING_PAIRS.
TRADING_PAIRS == <<"BTCUSDT", "ETHUSDT">>

Pairs == {TRADING_PAIRS[i] : i \in 1..Len(TRADING_PAIRS)}

Chats == {1, 2}

\* ---- bounds ----
\* How many times the clock advances under SpecGate, Spec and SpecShared.
MaxGateTicks == 3

MaxTicks == 1

MaxSharedTicks == 1

\* How many times the clock advances under SpecTracking.
MaxTrackingTicks == 1

\* How many times the clock advances under SpecExpiry.
MaxExpiryTicks == 1

\* How many update_profit_tracking tasks are ever created (one per
\* start_monitoring that begins).
MaxProfitTasks == 2

\* The seconds by which the clock advances between two generate_signal calls.
GateTicks == {10, 3599, 3600}

\* The seconds by which the clock advances between two steps of the tasks.
Ticks == {7200}

\* The same for the tasks of several chats: within and beyond the cooldown.
SharedTicks == {300, 7200}

\* The same past the 24 hours of profit tracking.
ExpiryTicks == {86401}

\* To the end of the cooldown, and past the 24 hours of profit tracking.
TrackingTicks == {7200, 86401}

ProfitTasks == 1..MaxProfitTasks

\* No record of a pair (pair not in self.last_signals).
NoRecord == [pair |-> "", price |-> 0, timestamp |-> -1, action |-> "None", strength |-> 0]

NoCall == [pair |-> "", time |-> -1,
           checks |-> [rsi |-> "NONE", macd |-> "NONE", ema |-> "NONE", bb |-> "NONE"],
           action |-> "None", strength |-> 0,
           prior |-> NoRecord, ret |-> "none"]

NoIter == [pos |-> 0, used |-> 0, pair |-> "", entry_time |-> -1]

(***************************************************************************)
(* generate_signal.  A dataframe is represented by what its last row       *)
(* makes each of the four checks do: fire as BUY, fire as SELL, or not     *)
(* fire (NONE).                                                            *)
(***************************************************************************)
\* The RSI check: sets the action and increments the strength.
RsiCheck(signal, d) ==
    IF d = "NONE" THEN signal
    ELSE [signal EXCEPT !.action = d, !.strength = @ + 1]

\* A mutant of LaterCheck: a check that disagrees with the action replaces
\* it.
LaterCheckFlipping(signal, d) ==
    IF d = "NONE" THEN signal
    ELSE IF signal.action = d THEN [signal EXCEPT !.strength = @ + 1]
    ELSE [signal EXCEPT !.action = d]

\* The MACD, EMA and Bollinger checks: increment the strength when the
\* action agrees, set the action when it is still None.
LaterCheck(signal, d) ==
    IF d = "NONE" THEN signal
    ELSE IF signal.action = d THEN [signal EXCEPT !.strength = @ + 1]
    ELSE IF signal.action = "None" THEN [signal EXCEPT !.action = d]
    ELSE signal

\* The signal dict after the four checks.
BuildSignal(pair, t, checks) ==
    LET s0 == [pair |-> pair, timestamp |-> t, action |-> "None", strength |-> 0]
        s1 == RsiCheck(s0, checks.rsi)
        s2 == LaterCheck(s1, checks.macd)
        s3 == LaterCheck(s2, checks.ema)
    IN  LaterCheck(s3, checks.bb)

\* Mutants of InCooldown: the check dropped; the check against
\* MIN_SIGNAL_INTERVAL; the check with <= for <.
InCooldownDropped(pair, t) == FALSE

InCooldownMinInterval(pair, t) ==
    /\ pair \in DOMAIN last_signals
    /\ t - last_signals[pair].timestamp < MIN_SIGNAL_INTERVAL

InCooldownInclusive(pair, t) ==
    /\ pair \in DOMAIN last_signals
    /\ t - last_signals[pair].timestamp <= signal_cooldown

\* "Check if we're in cooldown period for this pair".
InCooldown(pair, t) ==
    /\ pair \in DOMAIN last_signals
    /\ t - last_signals[pair].timestamp < signal_cooldown

\* A mutant of Returned: strength > 2 for strength >= 2.
ReturnedStrict(pair, t, checks) ==
    /\ ~InCooldown(pair, t)
    /\ BuildSignal(pair, t, checks).action # "None"
    /\ BuildSignal(pair, t, checks).strength > 2

\* A mutant of Returned: a signal is returned whenever the pair is not in
\* cooldown.
ReturnedUnlessCooldown(pair, t, checks) == ~InCooldown(pair, t)

\* A mutant of Returned: a signal is returned whatever its strength.
ReturnedAnyStrength(pair, t, checks) ==
    /\ ~InCooldown(pair, t)
    /\ BuildSignal(pair, t, checks).action # "None"

\* Whether generate_signal(pair, df) at time t returns the signal (not None).
Returned(pair, t, checks) ==
    /\ ~InCooldown(pair, t)
    /\ BuildSignal(pair, t, checks).action # "None"
    /\ BuildSignal(pair, t, checks).strength >= 2

\* The signal dict with its "price", the close of the dataframe's last row.
WithPrice(signal, current_price) ==
    [pair |-> signal.pair, price |-> current_price, timestamp |-> signal.timestamp,
     action |-> signal.action, strength |-> signal.strength]

\* A mutant of SetTracking: the entry of a present key is kept
\* (dict.setdefault).
SetTrackingKeeping(pt, pair, current_price, t, action) ==
    LET e == [pair |-> pair, entry_price |-> current_price, entry_time |-> t,
              action |-> action, refreshed |-> FALSE]
    IN  IF \E i \in 1..Len(pt) : pt[i].pair = pair THEN pt ELSE Append(pt, e)

\* self.profit_tracking[pair] = {...}: a present key keeps its place.
SetTracking(pt, pair, current_price, t, action) ==
    LET e == [pair |-> pair, entry_price |-> current_price, entry_time |-> t,
              action |-> action, refreshed |-> FALSE]
    IN  IF \E i \in 1..Len(pt) : pt[i].pair = pair
          THEN [i \in 1..Len(pt) |-> IF pt[i].pair = pair THEN e ELSE pt[i]]
          ELSE Append(pt, e)

\* A mutant of generate_signal: a call that returns None stamps the pair's
\* record with the time of the call.
generate_signalRestamping(pair, checks, current_price) ==
    LET signal == WithPrice(BuildSignal(pair, now, checks), current_price)
        ret == Returned(pair, now, checks)
    IN  /\ last_signals' =
               IF ret THEN (pair :> signal) @@ last_signals
               ELSE IF pair \in DOMAIN last_signals
                 THEN [last_signals EXCEPT ![pair].timestamp = now]
               ELSE last_signals
        /\ profit_tracking' =
               IF ret THEN SetTracking(profit_tracking, pair, current_price, now, signal.action)
                      ELSE profit_tracking
        /\ accepted' = IF ret THEN [accepted EXCEPT ![pair] = Append(@, now)] ELSE accepted

\* One call generate_signal(pair, df) at the current time.
generate_signal(pair, checks, current_price) ==
    LET signal == WithPrice(BuildSignal(pair, now, checks), current_price)
        ret == Returned(pair, now, checks)
    IN  /\ last_signals' = IF ret THEN (pair :> signal) @@ last_signals ELSE last_signals
        /\ profit_tracking' =
               IF ret THEN SetTracking(profit_tracking, pair, current_price, now, signal.action)
                      ELSE profit_tracking
        /\ accepted' = IF ret THEN [accepted EXCEPT ![pair] = Append(@, now)] ELSE accepted

\* The dataframes the model feeds to generate_signal.
Quiet == [rsi |-> "NONE", macd |-> "NONE", ema |-> "NONE", bb |-> "NONE"]

\* Every outcome of the four checks.
AllChecks == [{"rsi", "macd", "ema", "bb"} -> {"BUY", "SELL", "NONE"}]

\* The dataframes fed to the gatekeeper: no check fires; MACD alone fires
\* (BUY, strength 0); RSI and MACD fire (BUY, strength 2); RSI and EMA fire
\* (SELL, strength 2).
GateChecks ==
    { Quiet,
      [Quiet EXCEPT !.macd = "BUY"],
      [Quiet EXCEPT !.rsi = "BUY", !.macd = "BUY"],
      [Quiet EXCEPT !.rsi = "SELL", !.ema = "SELL"] }

\* The dataframes fed to the monitoring tasks: no check fires; MACD alone
\* fires; an actionable BUY; an actionable SELL.
CheckSamples ==
    { Quiet,
      [Quiet EXCEPT !.macd = "BUY"],
      [Quiet EXCEPT !.rsi = "BUY", !.macd = "BUY"],
      [Quiet EXCEPT !.rsi = "SELL", !.ema = "SELL"] }

\* What get_klines returns, [] (ok = FALSE) or candles with the close of
\* their last row, and whether calculate_indicators or generate_signal then
\* raises on them (before generate_signal has written anything).
Klines ==
    {[ok |-> FALSE, raises |-> FALSE, checks |-> Quiet, close |-> 0]}
        \cup {[ok |-> TRUE, raises |-> FALSE, checks |-> ch, close |-> 1] : ch \in CheckSamples}
        \cup {[ok |-> TRUE, raises |-> TRUE, checks |-> Quiet, close |-> 1]}

\* The actionable BUY of CheckSamples.
StrongBuy == [Quiet EXCEPT !.rsi = "BUY", !.macd = "BUY"]

\* Klines without the exceptions and without the weak sample, for the
\* interleavings of several chats.
SharedKlines == {k \in Klines : ~k.raises /\ k.checks # [Quiet EXCEPT !.macd = "BUY"]}

\* [] or candles of an actionable BUY, for the runs over 24 hours and the runs
\* beside the /analyze command.
BuyKlines == {k \in Klines : ~k.raises /\ (k.ok => k.checks = StrongBuy)}

\* [], or candles of an actionable BUY that close at 1, or candles of an
\* actionable SELL that close at 2, for the runs that compare the two dicts.
PricedKlines ==
    BuyKlines
        \cup {[ok |-> TRUE, raises |-> FALSE,
               checks |-> [Quiet EXCEPT !.rsi = "SELL", !.ema = "SELL"], close |-> 2]}

\* generate_signal(pair, df) runs to its return on what get_klines returned.
Analyzed(k) == k.ok /\ ~k.raises

InitBroadcaster ==
    /\ now = 0
    /\ nticks = 0
    /\ running = FALSE
    /\ session = 0
    /\ last_signals = <<>>
    /\ profit_tracking = <<>>
    /\ active_monitors = {}
    /\ mpc = [c \in Chats |-> "none"]
    /\ midx = [c \in Chats |-> 1]
    /\ msigs = [c \in Chats |-> <<>>]
    /\ ppc = [t \in ProfitTasks |-> "none"]
    /\ piter = [t \in ProfitTasks |-> NoIter]
    /\ lastCall = NoCall
    /\ accepted = [p \in Pairs |-> <<>>]
    /\ undelivered = {}
    /\ broadcasted = {}

\* The clock advances by d seconds, at most max times.
Tick(d, max) ==
    /\ nticks < max
    /\ now' = now + d
    /\ nticks' = nticks + 1
    /\ UNCHANGED <<fusionVars, application, running, session, gateVars, lastCall, monitorVars,
                   profitVars, undelivered, broadcasted>>

\* One call generate_signal(pair, df) on the broadcaster, with what it was
\* given and what it returned.
GenerateSignalCall(pair, checks) ==
    /\ generate_signal(pair, checks, 1)
    /\ lastCall' = [pair |-> pair, time |-> now, checks |-> checks,
                    action |-> BuildSignal(pair, now, checks).action,
                    strength |-> BuildSignal(pair, now, checks).strength,
                    prior |-> IF pair \in DOMAIN last_signals
                                THEN last_signals[pair] ELSE NoRecord,
                    ret |-> IF Returned(pair, now, checks) THEN "signal" ELSE "None"]
    /\ UNCHANGED <<fusionVars, clockVars, application, running, session, monitorVars, profitVars,
                   undelivered, broadcasted>>

\* A mutant of Start: the task is created whether or not the chat is in
\* active_monitors.
StartUnguarded(c) ==
    /\ active_monitors' = active_monitors \cup {c}
    /\ mpc' = [mpc EXCEPT ![c] = "created"]
    /\ UNCHANGED <<midx, msigs>>
    /\ UNCHANGED <<fusionVars, clockVars, application, running, session, gateVars, lastCall,
                   profitVars, undelivered, broadcasted>>

\* main.py start(): the /start command of chat c.
Start(c) ==
    /\ \/ /\ c \in active_monitors
          /\ UNCHANGED monitorVars
       \/ /\ c \notin active_monitors
          /\ Cardinality({t \in ProfitTasks : ppc[t] # "none"})
                + Cardinality({d \in Chats : mpc[d] = "created"}) < MaxProfitTasks
          /\ active_monitors' = active_monitors \cup {c}
          /\ mpc' = [mpc EXCEPT ![c] = "created"]
          /\ UNCHANGED <<midx, msigs>>
    /\ UNCHANGED <<fusionVars, clockVars, application, running, session, gateVars, lastCall,
                   profitVars, undelivered, broadcasted>>

\* The signals of chat c's task that were returned by generate_signal and
\* not yet passed to send_message.
Unsent(c) ==
    LET rest == IF mpc[c] = "send" THEN Tail(msigs[c]) ELSE msigs[c]
    IN  {<<rest[i].pair, rest[i].timestamp>> : i \in 1..Len(rest)}

\* A mutant of Stop: the registry entry is deleted and the task is not
\* cancelled.
StopWithoutCancel(c) ==
    /\ \/ /\ c \notin active_monitors
          /\ UNCHANGED <<monitorVars, undelivered>>
       \/ /\ c \in active_monitors
          /\ active_monitors' = active_monitors \ {c}
          /\ UNCHANGED <<mpc, midx, msigs, undelivered>>
    /\ UNCHANGED <<fusionVars, clockVars, application, running, session, gateVars, lastCall,
                   profitVars, broadcasted>>

\* main.py stop(): the /stop command of chat c; the cancelled task runs no
\* further statement.
Stop(c) ==
    /\ \/ /\ c \notin active_monitors
          /\ UNCHANGED <<monitorVars, undelivered>>
       \/ /\ c \in active_monitors
          /\ active_monitors' = active_monitors \ {c}
          /\ mpc' = [mpc EXCEPT ![c] = "none"]
          /\ midx' = [midx EXCEPT ![c] = 1]
          /\ msigs' = [msigs EXCEPT ![c] = <<>>]
          /\ undelivered' = undelivered \cup Unsent(c)
    /\ UNCHANGED <<fusionVars, clockVars, application, running, session, gateVars, lastCall,
                   profitVars, broadcasted>>

\* start_monitoring up to its first await: running, a new session, the
\* profit-tracking task, the first cycle's first get_klines.
TaskBegin(c) ==
    /\ mpc[c] = "created"
    /\ running' = TRUE
    /\ session' = session + 1
    /\ LET t == CHOOSE t \in ProfitTasks :
                   ppc[t] = "none" /\ \A u \in ProfitTasks : ppc[u] = "none" => t <= u
       IN  ppc' = [ppc EXCEPT ![t] = "wait"]
    /\ mpc' = [mpc EXCEPT ![c] = "fetch"]
    /\ UNCHANGED <<fusionVars, clockVars, application, gateVars, lastCall,
                   active_monitors, midx, msigs, piter, undelivered, broadcasted>>

\* stop_monitoring: running = False and the session is closed.  The closed
\* session stays in self.session until the next start_monitoring replaces it.
stop_monitoring ==
    /\ running' = FALSE
    /\ UNCHANGED <<fusionVars, clockVars, application, session, gateVars, lastCall,
                   monitorVars, profitVars, undelivered, broadcasted>>

\* self.session is a ClientSession that stop_monitoring closed: every
\* get_klines on it raises inside its try and returns [].
SessionClosed == ~running /\ session # 0

\* A mutant of FetchReturn: an exception raised while analyzing a pair ends
\* the cycle without the signals collected so far.
FetchReturnAborting(c, k) ==
    /\ mpc[c] = "fetch"
    /\ LET pair == TRADING_PAIRS[midx[c]]
           sigs == IF k.raises THEN <<>>
                   ELSE IF Analyzed(k) /\ Returned(pair, now, k.checks)
                     THEN Append(msigs[c], WithPrice(BuildSignal(pair, now, k.checks), k.close))
                     ELSE msigs[c]
       IN  /\ IF Analyzed(k) THEN generate_signal(pair, k.checks, k.close)
                             ELSE UNCHANGED gateVars
           /\ msigs' = [msigs EXCEPT ![c] = sigs]
           /\ IF midx[c] < Len(TRADING_PAIRS) /\ ~k.raises
                THEN /\ midx' = [midx EXCEPT ![c] = @ + 1]
                     /\ mpc' = mpc
                ELSE /\ midx' = [midx EXCEPT ![c] = 1]
                     /\ mpc' = [mpc EXCEPT ![c] = IF sigs # <<>> THEN "send" ELSE "sleep"]
    /\ UNCHANGED <<fusionVars, clockVars, application, running, session, lastCall,
                   active_monitors, profitVars, undelivered, broadcasted>>

\* A mutant of FetchReturn: get_klines raises on a failed request instead of
\* returning [], and the exception ends the cycle.
FetchReturnPropagating(c, k) ==
    /\ mpc[c] = "fetch"
    /\ LET pair == TRADING_PAIRS[midx[c]]
           sigs == IF ~k.ok THEN <<>>
                   ELSE IF Analyzed(k) /\ Returned(pair, now, k.checks)
                     THEN Append(msigs[c], WithPrice(BuildSignal(pair, now, k.checks), k.close))
                     ELSE msigs[c]
       IN  /\ IF Analyzed(k) THEN generate_signal(pair, k.checks, k.close)
                             ELSE UNCHANGED gateVars
           /\ msigs' = [msigs EXCEPT ![c] = sigs]
           /\ IF midx[c] < Len(TRADING_PAIRS) /\ k.ok
                THEN /\ midx' = [midx EXCEPT ![c] = @ + 1]
                     /\ mpc' = mpc
                ELSE /\ midx' = [midx EXCEPT ![c] = 1]
                     /\ mpc' = [mpc EXCEPT ![c] = IF sigs # <<>> THEN "send" ELSE "sleep"]
    /\ UNCHANGED <<fusionVars, clockVars, application, running, session, lastCall,
                   active_monitors, profitVars, undelivered, broadcasted>>

\* analyze_markets: get_klines(pair) returns k; the rest of the loop body,
\* with its except clause, and the loop up to the next await.
FetchReturn(c, k) ==
    /\ mpc[c] = "fetch"
    /\ LET pair == TRADING_PAIRS[midx[c]]
           sigs == IF Analyzed(k) /\ Returned(pair, now, k.checks)
                     THEN Append(msigs[c], WithPrice(BuildSignal(pair, now, k.checks), k.close))
                     ELSE msigs[c]
       IN  /\ IF Analyzed(k) THEN generate_signal(pair, k.checks, k.close)
                             ELSE UNCHANGED gateVars
           /\ msigs' = [msigs EXCEPT ![c] = sigs]
           /\ IF midx[c] < Len(TRADING_PAIRS)
                THEN /\ midx' = [midx EXCEPT ![c] = @ + 1]
                     /\ mpc' = mpc
                ELSE /\ midx' = [midx EXCEPT ![c] = 1]
                     /\ mpc' = [mpc EXCEPT ![c] = IF sigs # <<>> THEN "send" ELSE "sleep"]
    /\ UNCHANGED <<fusionVars, clockVars, application, running, session, lastCall,
                   active_monitors, profitVars, undelivered, broadcasted>>

\* What awaiting TradingBot.send_message can end in.
SendOutcomes == IF application THEN {"sent", "raised"} ELSE {"no_application"}

\* TradingBot.send_message: the exception of application.bot.send_message is
\* logged and raised again; without an application an error is logged and
\* the method returns.
send_message(outcome) == IF outcome = "raised" THEN "raises" ELSE "returns"

\* broadcast_signals: send_message for the first unsent signal ends.
SendReturn(c, outcome) ==
    /\ mpc[c] = "send"
    /\ outcome \in SendOutcomes
    /\ LET s == Head(msigs[c])
       IN  /\ undelivered' = IF outcome # "sent"
                               THEN undelivered \cup {<<s.pair, s.timestamp>>}
                               ELSE undelivered
           /\ broadcasted' = IF send_message(outcome) = "returns"
                               THEN broadcasted \cup {<<s.pair, s.timestamp>>}
                               ELSE broadcasted
    /\ msigs' = [msigs EXCEPT ![c] = Tail(@)]
    /\ mpc' = [mpc EXCEPT ![c] = IF Tail(msigs[c]) # <<>> THEN "send" ELSE "sleep"]
    /\ UNCHANGED <<fusionVars, clockVars, application, running, session, gateVars, lastCall,
                   active_monitors, midx, profitVars>>

\* A mutant of SleepReturn: the loop is left after a cycle whose broadcast
\* failed for some signal.
SleepReturnAfterError(c) ==
    /\ mpc[c] = "sleep"
    /\ mpc' = [mpc EXCEPT ![c] = IF running /\ undelivered = {} THEN "fetch" ELSE "none"]
    /\ UNCHANGED <<fusionVars, clockVars, application, running, session, gateVars, lastCall,
                   active_monitors, midx, msigs, profitVars, undelivered, broadcasted>>

\* start_monitoring: asyncio.sleep(SIGNAL_INTERVAL) returns.
SleepReturn(c) ==
    /\ mpc[c] = "sleep"
    /\ mpc' = [mpc EXCEPT ![c] = IF running THEN "fetch" ELSE "none"]
    /\ UNCHANGED <<fusionVars, clockVars, application, running, session, gateVars, lastCall,
                   active_monitors, midx, msigs, profitVars, undelivered, broadcasted>>

(***************************************************************************)
(* update_profit_tracking: the loop over self.profit_tracking.items().     *)
(***************************************************************************)
RemoveAt(pt, i) == [j \in 1..(Len(pt) - 1) |-> IF j < i THEN pt[j] ELSE pt[j + 1]]

\* update_profit_tracking without the del of line 323: the pass ends at an
\* expired entry and keeps it.
ProfitNextKeeping(pt, pos, used) ==
    IF Len(pt) # used THEN [pc |-> "wait", pt |-> pt, it |-> NoIter]
    ELSE IF pos > Len(pt) THEN [pc |-> "wait", pt |-> pt, it |-> NoIter]
    ELSE IF now - pt[pos].entry_time > ProfitWindow
      THEN [pc |-> "wait", pt |-> pt, it |-> NoIter]
    ELSE [pc |-> "fetch", pt |-> pt,
          it |-> [pos |-> pos, used |-> used, pair |-> pt[pos].pair,
                  entry_time |-> pt[pos].entry_time]]

\* The iterator's next() at position pos, and the loop body up to the next
\* await.  A dict whose size changed since the iterator was made raises
\* RuntimeError, which the try catches: the task sleeps.
ProfitNext(pt, pos, used) ==
    IF Len(pt) # used THEN [pc |-> "wait", pt |-> pt, it |-> NoIter]
    ELSE IF pos > Len(pt) THEN [pc |-> "wait", pt |-> pt, it |-> NoIter]
    ELSE IF now - pt[pos].entry_time > ProfitWindow
      THEN [pc |-> "wait", pt |-> RemoveAt(pt, pos), it |-> NoIter]
    ELSE [pc |-> "fetch", pt |-> pt,
          it |-> [pos |-> pos, used |-> used, pair |-> pt[pos].pair,
                  entry_time |-> pt[pos].entry_time]]

\* tracking["current_profit"] = ...: the dict object the iterator yielded.
Refresh(pt, it) ==
    [i \in 1..Len(pt) |->
        IF pt[i].pair = it.pair /\ pt[i].entry_time = it.entry_time
          THEN [pt[i] EXCEPT !.refreshed = TRUE] ELSE pt[i]]

\* The task starts, or asyncio.sleep(300) returns: a new pass.
ProfitWake(t) ==
    /\ ppc[t] = "wait"
    /\ LET r == ProfitNext(profit_tracking, 1, Len(profit_tracking))
       IN  IF running
             THEN /\ ppc' = [ppc EXCEPT ![t] = r.pc]
                  /\ piter' = [piter EXCEPT ![t] = r.it]
                  /\ profit_tracking' = r.pt
             ELSE /\ ppc' = [ppc EXCEPT ![t] = "none"]
                  /\ UNCHANGED <<piter, profit_tracking>>
    /\ UNCHANGED <<fusionVars, clockVars, application, running, session, last_signals,
                   lastCall, accepted, monitorVars, undelivered, broadcasted>>

\* get_klines(pair) returns to update_profit_tracking.
ProfitFetchReturn(t, ok) ==
    /\ ppc[t] = "fetch"
    /\ LET pt1 == IF ok THEN Refresh(profit_tracking, piter[t]) ELSE profit_tracking
           r == ProfitNext(pt1, piter[t].pos + 1, piter[t].used)
       IN  /\ ppc' = [ppc EXCEPT ![t] = r.pc]
           /\ piter' = [piter EXCEPT ![t] = r.it]
           /\ profit_tracking' = r.pt
    /\ UNCHANGED <<fusionVars, clockVars, application, running, session, last_signals,
                   lastCall, accepted, monitorVars, undelivered, broadcasted>>

\* ---- bounds of the inputs ----
MaxFired == 2

NewsSentiments == {-1000, -601, -600, -201, -200, 0, 200, 201, 600, 601, 1000}

\* _check_head_and_shoulders and _check_inverse_head_and_shoulders return
\* False on every dataframe (their head is the second of the sorted peaks).
FirablePatterns ==
    (BullishPatterns \cup BearishPatterns)
        \ {"head_and_shoulders", "inverse_head_and_shoulders"}

NoVotes == [i \in Indicators |-> ConfigSignalType("HOLD")]

NoSignals == [l \in Leaves |-> [sig |-> CoreSignalType("HOLD"), conf |-> CoreConfidenceLevel("NONE")]]

NoResult == [sig |-> "none", conf |-> "none"]

InitFusion ==
    /\ fpc = "ready"
    /\ series \in {"full", "empty"}
    /\ candles = <<>>
    /\ votes \in [Indicators -> IndicatorSignals]
    /\ fired \in {f \in SUBSET FirablePatterns : Cardinality(f) <= MaxFired}
    /\ series = "empty" => (votes = NoVotes /\ fired = {})
    /\ news \in NewsSentiments
    /\ signals = NoSignals
    /\ result = NoResult
    /\ application = FALSE
    /\ InitBroadcaster

\* analyze_market behind generate_signal's cooldown: a call while a record
\* of last_signals is in its cooldown returns (HOLD, NONE).
AnalyzeMarketGated ==
    /\ fpc # "off"
    /\ signals' = LeafSignals(votes, fired, news)
    /\ result' = IF \E p \in Pairs : InCooldown(p, now)
                   THEN [sig |-> CoreSignalType("HOLD"), conf |-> CoreConfidenceLevel("NONE")]
                   ELSE analyze_market(signals')
    /\ fpc' = IF fpc = "ready" THEN "done" ELSE "again"
    /\ UNCHANGED <<series, candles, votes, fired, news, broadcasterVars>>

\* One call of TradingBot.analyze_market(df, symbol), on the same df and
\* symbol as the call before it.
AnalyzeMarket ==
    /\ fpc # "off"
    /\ IF TechnicalAnalyzer_raises(series)
         THEN /\ fpc' = "raised"
              /\ UNCHANGED <<signals, result>>
         ELSE /\ signals' = LeafSignals(votes, fired, news)
              /\ result' = analyze_market(signals')
              /\ fpc' = IF fpc = "ready" THEN "done" ELSE "again"
    /\ UNCHANGED <<series, candles, votes, fired, news, broadcasterVars>>

NextFusion == AnalyzeMarket

SpecFusion == InitFusion /\ [][NextFusion]_vars

(***************************************************************************)
(* The pattern leaf alone, on short dataframes and on windows of 30 rows   *)
(* with three peaks or three troughs.                                      *)
(***************************************************************************)
\* The largest open and close of a short dataframe's rows.
MaxPrice == 4

\* The most rows of a short dataframe.
MaxShort == 3

Prices == 1..MaxPrice

Row(o, cl) ==
    [open |-> o, high |-> IF o > cl THEN o ELSE cl,
     low |-> IF o < cl THEN o ELSE cl, close |-> cl]

ShortRows == {Row(o, cl) : o \in Prices, cl \in Prices}

ShortSeries == UNION {[1..n -> ShortRows] : n \in 0..MaxShort}

\* The heights of the three peaks above the flat highs of 100, and the depths
\* of the three troughs below the flat lows of 90.
PeakHeights == {110, 111, 120, 130}

TroughDepths == {80, 79, 70, 60}

PeakRows == {6, 15, 24}

\* 30 rows that open and close at 95, with the highs h and the lows l at the
\* rows of PeakRows.
Window(h, l) ==
    [i \in 1..30 |->
        [open |-> 95, close |-> 95,
         high |-> IF i \in PeakRows THEN h[i] ELSE 100,
         low |-> IF i \in PeakRows THEN l[i] ELSE 90]]

PeakSeries ==
    {Window(h, [i \in PeakRows |-> 90]) : h \in [PeakRows -> PeakHeights]}
        \cup {Window([i \in PeakRows |-> 100], l) : l \in [PeakRows -> TroughDepths]}

InitPattern ==
    /\ fpc = "ready"
    /\ candles \in ShortSeries \cup PeakSeries
    /\ series = IF candles = <<>> THEN "empty" ELSE "full"
    /\ votes = NoVotes
    /\ fired = {}
    /\ news = 0
    /\ signals = NoSignals
    /\ result = NoResult
    /\ application = FALSE
    /\ InitBroadcaster

\* One call of PatternRecognizer.analyze(df).
PatternAnalyze ==
    /\ fpc = "ready"
    /\ fired' = FiredOn(candles)
    /\ signals' = [signals EXCEPT !["pattern"] = PatternRecognizer_analyze(fired')]
    /\ fpc' = "done"
    /\ UNCHANGED <<series, candles, votes, news, result, broadcasterVars>>

NextPattern == PatternAnalyze

SpecPattern == InitPattern /\ [][NextPattern]_vars

(***************************************************************************)
(* The broadcaster with its tasks.                                         *)
(***************************************************************************)
\* No analyze_market call in progress.
FusionIdle ==
    /\ fpc = "off"
    /\ series = "full"
    /\ candles = <<>>
    /\ votes = NoVotes
    /\ fired = {}
    /\ news = 0
    /\ signals = NoSignals
    /\ result = NoResult

Init ==
    /\ FusionIdle
    /\ application \in BOOLEAN
    /\ InitBroadcaster

\* One chat: its monitoring task and the profit-tracking task it starts.
Next ==
    \/ \E d \in Ticks : Tick(d, MaxTicks)
    \/ Start(1)
    \/ Stop(1)
    \/ TaskBegin(1)
    \/ \E k \in Klines : FetchReturn(1, k)
    \/ \E o \in {"sent", "raised", "no_application"} : SendReturn(1, o)
    \/ SleepReturn(1)
    \/ \E t \in ProfitTasks : ProfitWake(t)
    \/ \E t \in ProfitTasks, ok \in BOOLEAN : ProfitFetchReturn(t, ok)

Spec == Init /\ [][Next]_vars

\* Every chat: the monitoring tasks and the profit-tracking tasks that share
\* the broadcaster, in every interleaving.  Only the first pair of the
\* watch-list gets candles; get_klines returns [] for the others.
NextShared ==
    \/ \E d \in SharedTicks : Tick(d, MaxSharedTicks)
    \/ \E c \in Chats : Start(c)
    \/ \E c \in Chats : Stop(c)
    \/ \E c \in Chats : TaskBegin(c)
    \/ \E c \in Chats, k \in SharedKlines : (k.ok => midx[c] = 1) /\ FetchReturn(c, k)
    \/ \E c \in Chats, o \in {"sent", "raised", "no_application"} : SendReturn(c, o)
    \/ \E c \in Chats : SleepReturn(c)
    \/ \E t \in ProfitTasks : ProfitWake(t)
    \/ \E t \in ProfitTasks, ok \in BOOLEAN : ProfitFetchReturn(t, ok)

SpecShared == Init /\ [][NextShared]_vars

\* One chat at one instant: its monitoring loop and the profit-tracking
\* tasks, on an event loop that runs every task that is ready and on which
\* every awaited get_klines, send_message and sleep returns.
NextLoop ==
    \/ Start(1)
    \/ Stop(1)
    \/ TaskBegin(1)
    \/ \E k \in Klines : FetchReturn(1, k)
    \/ \E o \in {"sent", "raised", "no_application"} : SendReturn(1, o)
    \/ SleepReturn(1)
    \/ \E t \in ProfitTasks : ProfitWake(t)
    \/ \E t \in ProfitTasks, ok \in BOOLEAN : ProfitFetchReturn(t, ok)

FairLoop ==
    /\ WF_vars(TaskBegin(1))
    /\ WF_vars(\E k \in Klines : FetchReturn(1, k))
    /\ WF_vars(\E o \in {"sent", "raised", "no_application"} : SendReturn(1, o))
    /\ WF_vars(SleepReturn(1))

SpecLoop == Init /\ [][NextLoop]_vars /\ FairLoop

\* One chat that is started and never stopped, over more than 24 hours, on an
\* event loop that runs every profit-tracking task that is ready and on which
\* its get_klines and its sleep return.
NextExpiry ==
    \/ \E d \in ExpiryTicks : Tick(d, MaxExpiryTicks)
    \/ Start(1)
    \/ TaskBegin(1)
    \/ \E k \in BuyKlines : FetchReturn(1, k)
    \/ \E o \in {"sent", "raised", "no_application"} : SendReturn(1, o)
    \/ SleepReturn(1)
    \/ \E t \in ProfitTasks : ProfitWake(t)
    \/ \E t \in ProfitTasks, ok \in BOOLEAN : ProfitFetchReturn(t, ok)

FairExpiry ==
    \A t \in ProfitTasks :
        /\ WF_vars(ProfitWake(t))
        /\ WF_vars(\E ok \in BOOLEAN : ProfitFetchReturn(t, ok))

SpecExpiry == Init /\ [][NextExpiry]_vars /\ FairExpiry

\* start_monitoring and stop_monitoring calls on the one SignalBroadcaster:
\* each chat's /start creates a task that runs start_monitoring, and
\* stop_monitoring is called at any moment.
NextMonitor ==
    \/ \E c \in Chats : Start(c)
    \/ \E c \in Chats : TaskBegin(c)
    \/ stop_monitoring
    \/ \E c \in Chats, k \in BuyKlines : (SessionClosed => ~k.ok) /\ FetchReturn(c, k)
    \/ \E c \in Chats, o \in {"sent", "raised", "no_application"} : SendReturn(c, o)
    \/ \E c \in Chats : SleepReturn(c)
    \/ \E t \in ProfitTasks : ProfitWake(t)
    \/ \E t \in ProfitTasks, ok \in BOOLEAN : (SessionClosed => ~ok) /\ ProfitFetchReturn(t, ok)

SpecMonitor == Init /\ [][NextMonitor]_vars

\* One chat that is started and never stopped, over the cooldown and over
\* more than 24 hours, on candles of either direction and of two prices, and
\* with no send_message that raises.
NextTracking ==
    \/ \E d \in TrackingTicks : Tick(d, MaxTrackingTicks)
    \/ Start(1)
    \/ TaskBegin(1)
    \/ \E k \in PricedKlines : FetchReturn(1, k)
    \/ \E o \in {"sent", "no_application"} : SendReturn(1, o)
    \/ SleepReturn(1)
    \/ \E t \in ProfitTasks : ProfitWake(t)
    \/ \E t \in ProfitTasks, ok \in BOOLEAN : ProfitFetchReturn(t, ok)

SpecTracking == Init /\ [][NextTracking]_vars

\* The /analyze command while one chat is monitored: analyze_market calls on
\* one df and symbol between the steps of the monitoring loop.
AnalyzeVotes == {NoVotes, [i \in Indicators |-> ConfigSignalType("BUY")]}

InitAnalyze ==
    /\ fpc = "ready"
    /\ series = "full"
    /\ candles = <<>>
    /\ votes \in AnalyzeVotes
    /\ fired = {}
    /\ news \in {-1000, 0}
    /\ signals = NoSignals
    /\ result = NoResult
    /\ application = TRUE
    /\ InitBroadcaster

NextAnalyze ==
    \/ AnalyzeMarket
    \/ Start(1)
    \/ Stop(1)
    \/ TaskBegin(1)
    \/ \E k \in BuyKlines : FetchReturn(1, k)
    \/ \E o \in {"sent", "raised", "no_application"} : SendReturn(1, o)
    \/ SleepReturn(1)
    \/ \E t \in ProfitTasks : ProfitWake(t)
    \/ \E t \in ProfitTasks, ok \in BOOLEAN : ProfitFetchReturn(t, ok)

SpecAnalyze == InitAnalyze /\ [][NextAnalyze]_vars

\* The commands main() registers a CommandHandler for, and the commands a
\* chat may send.
RegisteredCommands == {"start", "analyze", "status", "help"}

Commands == RegisteredCommands \cup {"stop"}

\* The application receives the command cmd from chat c: a registered
\* command runs its handler, and no handler matches any other command (the
\* MessageHandler filters commands out).  The analyze, status and help
\* handlers only reply.
Command(cmd, c) ==
    IF cmd \notin RegisteredCommands THEN UNCHANGED vars
    ELSE CASE cmd = "start" -> Start(c)
           [] cmd = "stop" -> Stop(c)
           [] OTHER -> UNCHANGED vars

\* One chat that sends commands, and its monitoring loop, on an event loop
\* that handles every command that arrives.
NextCommands ==
    \/ \E cmd \in Commands : Command(cmd, 1)
    \/ TaskBegin(1)
    \/ \E k \in BuyKlines : FetchReturn(1, k)
    \/ \E o \in {"sent", "raised", "no_application"} : SendReturn(1, o)
    \/ SleepReturn(1)
    \/ \E t \in ProfitTasks : ProfitWake(t)
    \/ \E t \in ProfitTasks, ok \in BOOLEAN : ProfitFetchReturn(t, ok)

FairCommands == \A cmd \in Commands : WF_vars(Command(cmd, 1))

SpecCommands == Init /\ [][NextCommands]_vars /\ FairCommands

(***************************************************************************)
(* The gatekeeper alone: generate_signal calls on one broadcaster as the   *)
(* clock advances.                                                         *)
(***************************************************************************)
InitGate ==
    /\ FusionIdle
    /\ application = FALSE
    /\ InitBroadcaster

NextGate ==
    \/ \E d \in GateTicks : Tick(d, MaxGateTicks)
    \/ \E p \in Pairs, ch \in GateChecks : GenerateSignalCall(p, ch)

SpecGate == InitGate /\ [][NextGate]_vars

\* generate_signal at one instant on every outcome of the four checks.
NextStrength == \E p \in Pairs, ch \in AllChecks : GenerateSignalCall(p, ch)

SpecStrength == InitGate /\ [][NextStrength]_vars


(***************************************************************************)
(* Claims about analyze_market, checked under SpecFusion.                  *)
(***************************************************************************)
HoldNone == [sig |-> CoreSignalType("HOLD"), conf |-> CoreConfidenceLevel("NONE")]

\* How many leaves say direction d (BUY / SELL / HOLD), whatever class the
\* leaf's value is an instance of.
NumSaying(d) == Cardinality({l \in Leaves : signals[l].sig.v = d})

\* C1: when exactly one leaf says Buy and exactly one says Sell (the third
\* says Hold), analyze_market returns (Hold, None).
C1_TieIsHold ==
    (fpc = "done" /\ NumSaying("BUY") = 1 /\ NumSaying("SELL") = 1)
        => result = HoldNone

\* The decision table of the fusion policy over the number of leaves saying
\* Buy (nb) and Sell (ns).
DecisionTable(nb, ns) ==
    IF nb >= 2 THEN [sig |-> CoreSignalType("BUY"), conf |-> CoreConfidenceLevel("HIGH")]
    ELSE IF ns >= 2 THEN [sig |-> CoreSignalType("SELL"), conf |-> CoreConfidenceLevel("HIGH")]
    ELSE IF nb = 1 /\ ns = 0 THEN [sig |-> CoreSignalType("BUY"), conf |-> CoreConfidenceLevel("MEDIUM")]
    ELSE IF ns = 1 /\ nb = 0 THEN [sig |-> CoreSignalType("SELL"), conf |-> CoreConfidenceLevel("MEDIUM")]
    ELSE HoldNone

\* C2: outside the 1-1 tie, analyze_market returns (Buy, High) on at least
\* two Buy leaves, else (Sell, High) on at least two Sell leaves, else
\* (Buy, Medium) / (Sell, Medium) on a single Buy / Sell leaf, and
\* (Hold, None) when all three leaves say Hold.
C2_DecisionTable ==
    (fpc = "done" /\ ~(NumSaying("BUY") = 1 /\ NumSaying("SELL") = 1))
        => result = DecisionTable(NumSaying("BUY"), NumSaying("SELL"))

\* The leaf results with leaf l replaced by (Hold, None).
WithoutLeaf(s, l) == [s EXCEPT ![l] = HoldNone]

\* Leaf l adds to the bullish or to the bearish tally.
Counted(l) ==
    \/ bullish_count(signals) # bullish_count(WithoutLeaf(signals, l))
    \/ bearish_count(signals) # bearish_count(WithoutLeaf(signals, l))

\* The leaf results with every leaf of confidence Low replaced by (Hold, None).
WithoutLow(s) ==
    [l \in Leaves |-> IF s[l].conf.v = "LOW" THEN HoldNone ELSE s[l]]

\* C3: a leaf is counted toward the bullish or bearish tally only if its own
\* confidence is at least Medium, and a leaf reporting (Buy, Low) or
\* (Sell, Low) contributes nothing: the result is the one obtained with that
\* leaf at (Hold, None).
C3_ConfidenceFloor ==
    fpc = "done" =>
        /\ \A l \in Leaves : Counted(l) => signals[l].conf.v \in {"MEDIUM", "HIGH"}
        /\ result = analyze_market(WithoutLow(signals))

\* C3's case: technical (Buy, Low), pattern (Buy, High), sentiment
\* (Hold, None) fused to (Buy, Medium).
C3_Witness ==
    /\ fpc = "done"
    /\ signals["technical"] = [sig |-> ConfigSignalType("BUY"), conf |-> ConfigConfidenceLevel("LOW")]
    /\ signals["pattern"] = [sig |-> CoreSignalType("BUY"), conf |-> CoreConfidenceLevel("HIGH")]
    /\ signals["sentiment"] = HoldNone
    /\ result = [sig |-> CoreSignalType("BUY"), conf |-> CoreConfidenceLevel("MEDIUM")]

LeafPermutations == {p \in [Leaves -> Leaves] : {p[l] : l \in Leaves} = Leaves}

\* Opinion o as leaf l returns it: the technical leaf returns
\* config.SignalType values, the other two core_types.SignalType values.
AsReturnedBy(l, o) ==
    IF l = "technical"
      THEN [sig |-> ConfigSignalType(o.sig.v), conf |-> ConfigConfidenceLevel(o.conf.v)]
      ELSE [sig |-> CoreSignalType(o.sig.v), conf |-> CoreConfidenceLevel(o.conf.v)]

\* C4: the fused result is the same for every permutation of which leaf
\* produced which of the three opinions, each leaf returning the opinion in
\* its own SignalType (stated for opinions every leaf can return, that is,
\* of confidence High, Medium or None).
C4_PermutationSymmetric ==
    (fpc = "done" /\ \A l \in Leaves : signals[l].conf.v # "LOW") =>
        \A p \in LeafPermutations :
            analyze_market([l \in Leaves |-> AsReturnedBy(l, signals[p[l]])]) = result

(***************************************************************************)
(* Claims about the gatekeeper in generate_signal, checked under SpecGate. *)
(***************************************************************************)
\* The last call proposed a signal generate_signal treats as actionable: an
\* action is set and at least two checks stand behind it.
Proposed == lastCall # NoCall /\ lastCall.action \in {"BUY", "SELL"} /\ lastCall.strength >= 2

\* Seconds between the last call and the record it found.
SinceLast == lastCall.time - lastCall.prior.timestamp

\* The last call was returned and recorded with its direction and its time.
Recorded ==
    /\ lastCall.ret = "signal"
    /\ lastCall.pair \in DOMAIN last_signals
    /\ last_signals[lastCall.pair].action = lastCall.action
    /\ last_signals[lastCall.pair].timestamp = lastCall.time

\* The last call returned None and left the record it found.
Rejected ==
    /\ lastCall.ret = "None"
    /\ lastCall.pair \in DOMAIN last_signals
    /\ last_signals[lastCall.pair] = lastCall.prior

\* C5: for a pair with no entry in last_signals, every actionable signal is
\* accepted, and the acceptance creates the record with the signal's
\* direction and the current time.
C5_UnseenAccepted ==
    (Proposed /\ lastCall.prior = NoRecord) => Recorded

\* C5's case: a SELL proposed for a pair without record, after the clock has
\* advanced.
C5_Witness ==
    /\ Proposed
    /\ lastCall.prior = NoRecord
    /\ lastCall.action = "SELL"
    /\ lastCall.time > 0
    /\ Recorded

\* C6: after an acceptance for a pair, every proposal for that pair made
\* before the cooldown has elapsed is rejected, whatever its direction and
\* strength, and the record stays as it was.
C6_CoolingRejects ==
    (lastCall # NoCall /\ lastCall.prior # NoRecord /\ SinceLast < signal_cooldown)
        => Rejected

\* C6's case: a reversal proposed 10 seconds after the acceptance.
C6_Witness ==
    /\ Proposed
    /\ lastCall.prior # NoRecord
    /\ lastCall.action # lastCall.prior.action
    /\ SinceLast = 10
    /\ Rejected

\* C7 as stated: an actionable signal whose direction differs from the last
\* accepted one, proposed at least MIN_SIGNAL_INTERVAL seconds after it, is
\* accepted.
C7_ReversalAfterMinInterval ==
    (Proposed /\ lastCall.prior # NoRecord /\ lastCall.action # lastCall.prior.action
        /\ SinceLast >= MIN_SIGNAL_INTERVAL) => Recorded

\* C7 amended: an actionable signal whose direction differs from the last
\* accepted one is rejected when proposed less than signal_cooldown = 7200
\* seconds after it and accepted when proposed at least 7200 seconds after it.
C7_ReversalAfterCooldown ==
    (Proposed /\ lastCall.prior # NoRecord /\ lastCall.action # lastCall.prior.action)
        => IF SinceLast >= signal_cooldown THEN Recorded ELSE Rejected

\* C7's case: a reversal accepted exactly 7200 seconds after the last
\* acceptance.
C7_Witness ==
    /\ Proposed
    /\ lastCall.prior # NoRecord
    /\ lastCall.action # lastCall.prior.action
    /\ SinceLast = signal_cooldown
    /\ Recorded

\* C8: an actionable signal with the direction of the last accepted one is
\* accepted exactly when at least SIGNAL_EXPIRY = 7200 seconds have passed
\* since that acceptance, and the acceptance overwrites the record with the
\* new timestamp.
C8_ExpiryPolicy ==
    (Proposed /\ lastCall.prior # NoRecord /\ lastCall.action = lastCall.prior.action)
        => IF SinceLast >= SIGNAL_EXPIRY THEN Recorded ELSE Rejected

\* C8's case: the same direction accepted exactly 7200 seconds after the last
\* acceptance.
C8_Witness ==
    /\ Proposed
    /\ lastCall.prior # NoRecord
    /\ lastCall.action = lastCall.prior.action
    /\ SinceLast = SIGNAL_EXPIRY
    /\ Recorded
    /\ last_signals[lastCall.pair].timestamp # lastCall.prior.timestamp

(***************************************************************************)
(* Claims about the tasks that share the broadcaster.                      *)
(***************************************************************************)
\* C9: for each pair, any two accepted signals have timestamps at least the
\* cooldown (hence at least MIN_SIGNAL_INTERVAL) apart, in every interleaving
\* of the monitoring tasks and the profit-tracking tasks.
C9_MinimumSpacing ==
    \A p \in Pairs : \A i, j \in 1..Len(accepted[p]) :
        i < j => /\ accepted[p][j] - accepted[p][i] >= signal_cooldown
                 /\ accepted[p][j] - accepted[p][i] >= MIN_SIGNAL_INTERVAL

\* C9's case: two monitoring tasks and a profit-tracking task in the middle
\* of a pass are live on the broadcaster, and a pair has been accepted twice.
C9_Witness ==
    /\ \A c \in Chats : mpc[c] \in {"fetch", "send", "sleep"}
    /\ \E t \in ProfitTasks : ppc[t] = "fetch"
    /\ \E p \in Pairs : Len(accepted[p]) >= 2

\* C10: a signal whose delivery failed, or whose task was cancelled before
\* the send, has not started the cooldown: last_signals holds no record
\* written for it.
C10_FailureLeavesNoRecord ==
    \A u \in undelivered :
        ~(u[1] \in DOMAIN last_signals /\ last_signals[u[1]].timestamp = u[2])

\* The directions a stored or broadcast signal may have.
Directions == {"BUY", "SELL"}

\* C11: every record of last_signals and every entry of profit_tracking has
\* direction BUY or SELL, and so has every signal the broadcast loop holds
\* for send_message; none has direction Hold or an undecided (None) action.
C11_RecordsHaveDirection ==
    /\ \A p \in DOMAIN last_signals : last_signals[p].action \in Directions
    /\ \A i \in 1..Len(profit_tracking) : profit_tracking[i].action \in Directions
    /\ \A c \in Chats : \A i \in 1..Len(msigs[c]) : msigs[c][i].action \in Directions

\* C11's case: a record and a profit-tracking entry are stored and the
\* broadcast loop is about to hand the signal to send_message.
C11_Witness ==
    /\ DOMAIN last_signals # {}
    /\ profit_tracking # <<>>
    /\ \E c \in Chats : mpc[c] = "send" /\ msigs[c] # <<>>

\* The positions of a monitoring task that has begun and was not cancelled.
Live == {"fetch", "send", "sleep"}

\* C12: a start command for a chat already in active_monitors creates no
\* task and changes nothing, and a stop command for a chat not in
\* active_monitors cancels nothing and changes nothing.
C12_NoOps ==
    [][\A c \in Chats :
          /\ (c \in active_monitors /\ mpc'[c] = "created") => mpc[c] = "created"
          /\ (c \in active_monitors /\ Start(c)) => UNCHANGED vars
          /\ (c \notin active_monitors /\ Stop(c)) => UNCHANGED vars]_vars

\* C12's case: one chat's monitoring runs, so that a start command for it
\* finds it in active_monitors, and the other chat's monitoring ran and was
\* stopped, so that a stop command for it finds it absent.
C12_Witness ==
    \E c, d \in Chats :
        /\ c \in active_monitors /\ mpc[c] \in Live
        /\ d \notin active_monitors /\ mpc[d] = "none"
        /\ Cardinality({t \in ProfitTasks : ppc[t] # "none"}) = 2

\* C13: once the monitoring of every started recipient has been stopped,
\* nothing of it is left: no monitoring task, no profit-tracking task, and
\* the broadcaster is not running.
C13_StopReleasesAll ==
    active_monitors = {} =>
        /\ \A c \in Chats : mpc[c] = "none"
        /\ \A t \in ProfitTasks : ppc[t] = "none"
        /\ ~running

\* C14: while a recipient's monitoring task lives, no step replaces the
\* session the broadcaster holds for it.
C14_SessionNotReplaced ==
    [][\A c \in Chats : (mpc[c] \in Live /\ mpc'[c] \in Live) => session' = session]_vars

\* Chat c's task returns from a get_klines of analyze_markets in this step
\* (and is not cancelled in it).
FetchStep(c) ==
    /\ mpc[c] = "fetch"
    /\ c \in active_monitors'
    /\ <<mpc[c], midx[c]>> # <<mpc'[c], midx'[c]>>

\* C15: whatever the analysis of one pair ends in, an exception included,
\* the signals already collected in the cycle are kept, the next pair of
\* TRADING_PAIRS is analyzed next in the same cycle, and after the last pair
\* the collected signals go to broadcast_signals.
C15_CycleContinues ==
    [][\A c \in Chats : FetchStep(c) =>
          /\ Len(msigs'[c]) >= Len(msigs[c])
          /\ SubSeq(msigs'[c], 1, Len(msigs[c])) = msigs[c]
          /\ IF midx[c] < Len(TRADING_PAIRS)
               THEN midx'[c] = midx[c] + 1 /\ mpc'[c] = "fetch"
               ELSE midx'[c] = 1
                    /\ mpc'[c] = (IF msigs'[c] # <<>> THEN "send" ELSE "sleep")]_vars

\* C15's case: the analysis of the first pair gave nothing although the pair
\* has no record, and the cycle went on to the second pair, whose signal is
\* being broadcast.
C15_Witness ==
    \E c \in Chats :
        /\ mpc[c] = "send"
        /\ Len(msigs[c]) = 1
        /\ msigs[c][1].pair = TRADING_PAIRS[2]
        /\ TRADING_PAIRS[1] \notin DOMAIN last_signals

\* C16: the monitoring loop is left only when the task is cancelled or
\* running is false, whatever get_klines, the analysis and send_message end
\* in; every cycle reaches the sleep, and every sleep is followed by another
\* cycle unless the task is cancelled.
C16_LoopNeverDies ==
    /\ [][\A c \in Chats : (mpc[c] \in Live /\ mpc'[c] \notin Live)
                             => (c \notin active_monitors' \/ ~running)]_vars
    /\ \A c \in Chats : (mpc[c] \in {"fetch", "send"}) ~> (mpc[c] \in {"sleep", "none"})
    /\ \A c \in Chats : (mpc[c] = "sleep") ~> (mpc[c] \in {"fetch", "none"})

\* C16's case: send_message failed for a signal of the cycle, and the task
\* is in the sleep that follows the cycle.
C16_Witness ==
    \E c \in Chats :
        /\ mpc[c] = "sleep"
        /\ c \in active_monitors
        /\ undelivered # {}

\* The get_klines requests in flight for the one recipient of Spec and
\* SpecLoop: the one its monitoring task awaits and the ones the
\* profit-tracking tasks its start_monitoring created await.
InFlight ==
    (IF mpc[1] = "fetch" THEN 1 ELSE 0) + Cardinality({t \in ProfitTasks : ppc[t] = "fetch"})

\* C17: at any moment at most one get_klines request is in flight for the
\* recipient.
C17_OneFetchInFlight == InFlight <= 1

\* profit_tracking has an entry of pair p that is older than 24 hours.
Expired(p) ==
    \E i \in 1..Len(profit_tracking) :
        /\ profit_tracking[i].pair = p
        /\ now - profit_tracking[i].entry_time > ProfitWindow

\* C18: every profit_tracking entry older than 24 hours is eventually
\* discarded, refreshed or not, whatever other entries there are.
C18_ExpiredDiscarded == \A p \in Pairs : Expired(p) ~> ~Expired(p)

\* C18's case: the entry of a pair whose signal is older than 24 hours is gone
\* from profit_tracking while the entry of another pair is still there.
C18_Witness ==
    \E p \in DOMAIN last_signals :
        /\ now - last_signals[p].timestamp > ProfitWindow
        /\ \A i \in 1..Len(profit_tracking) : profit_tracking[i].pair # p
        /\ \E i \in 1..Len(profit_tracking) : profit_tracking[i].pair # p

C20_LeafDegrades ==
    (series = "empty" /\ fpc # "ready") =>
        /\ fpc \in {"done", "again"}
        /\ signals["technical"] = HoldNone
        /\ signals["pattern"] = HoldNone
        /\ result = analyze_market(signals)

(***************************************************************************)
(* Claims about the pattern leaf, checked under SpecPattern.               *)
(***************************************************************************)
\* C21: on every dataframe of fewer than 20 rows, those of 2 or 3 rows
\* included, PatternRecognizer.analyze returns (HOLD, NONE).
C21_ShortSeriesHolds ==
    (fpc = "done" /\ Len(candles) < 20) => signals["pattern"] = HoldNone

\* The heights of the local peaks of the last 30 rows, in row order.
WindowPeaks == Peaks(Highs(Tail_n(candles, 30)), 2)

WindowTroughs == Peaks(NegLows(Tail_n(candles, 30)), 2)

\* Three peaks, the middle one strictly the highest, the outer two within 2%.
Shouldered(q) ==
    /\ Len(q) = 3
    /\ q[2] > q[1]
    /\ q[2] > q[3]
    /\ 50 * Abs(q[1] - q[3]) < Abs(q[1])

\* C30: on 30 rows with three local peaks whose head is strictly higher than
\* both shoulders, the shoulders within 2%, _check_head_and_shoulders returns
\* True; and _check_inverse_head_and_shoulders does on three such troughs.
C30_HeadAndShouldersFires ==
    (fpc = "done" /\ Len(candles) >= 30) =>
        /\ Shouldered(WindowPeaks) => "head_and_shoulders" \in fired
        /\ Shouldered(WindowTroughs) => "inverse_head_and_shoulders" \in fired

(***************************************************************************)
(* Claims about the monitoring loop's data path.                           *)
(***************************************************************************)
\* C22: when get_klines returns [] for a pair (a non-200 response or an
\* exception), analyze_markets skips the pair: last_signals and
\* profit_tracking stay as they are, no signal joins the cycle's signals, and
\* the loop goes on with the next pair.
C22_NoDataSkips ==
    [][\A k \in Klines : (~k.ok /\ FetchReturn(1, k)) =>
          /\ UNCHANGED <<last_signals, profit_tracking, accepted>>
          /\ msigs' = msigs
          /\ midx[1] < Len(TRADING_PAIRS) => (midx'[1] = midx[1] + 1 /\ mpc'[1] = "fetch")]_vars

\* C22's case: the cycle's first pair was accepted, get_klines then returned
\* [] for the second pair (candles would have made its first record), and the
\* first pair's signal goes to send_message.
C22_Witness ==
    /\ mpc[1] = "send"
    /\ Len(msigs[1]) = 1
    /\ msigs[1][1].pair = TRADING_PAIRS[1]
    /\ DOMAIN last_signals = {TRADING_PAIRS[1]}

\* A leaf result or a fused result of direction d and confidence k, whatever
\* the class of its values.
Says(r, d, k) == r.sig.v = d /\ r.conf.v = k

\* C23: when the technical leaf returns (BUY, HIGH), the pattern leaf
\* (BUY, MEDIUM) and the sentiment leaf (HOLD, NONE), the fused signal is
\* (BUY, HIGH).
C23_ScenarioFusesBuyHigh ==
    ( /\ fpc = "done"
      /\ Says(signals["technical"], "BUY", "HIGH")
      /\ Says(signals["pattern"], "BUY", "MEDIUM")
      /\ Says(signals["sentiment"], "HOLD", "NONE") )
        => Says(result, "BUY", "HIGH")

(***************************************************************************)
(* Claims about the registry of monitoring tasks.                          *)
(***************************************************************************)
\* C24: in every interleaving of the start and stop handlers a monitoring
\* task is created for a chat only when the chat has no task and no registry
\* entry, and it is registered in the same step; every task that exists is
\* registered; and an entry leaves the registry only with its task cancelled.
C24_RegistryAtomic ==
    [][\A c \in Chats :
          /\ (mpc[c] # "created" /\ mpc'[c] = "created") =>
                (mpc[c] = "none" /\ c \notin active_monitors /\ c \in active_monitors')
          /\ mpc'[c] # "none" => c \in active_monitors'
          /\ (c \in active_monitors /\ c \notin active_monitors') => mpc'[c] = "none"]_vars

\* C24's case: the chat was started, stopped and started again (its second
\* ClientSession is open), and its task is registered and running.
C24_Witness ==
    /\ session >= 2
    /\ 1 \in active_monitors
    /\ mpc[1] \in Live

\* C25: a chat that is monitored and sends the stop command is brought back
\* to stopped: its registry entry is removed.
C25_StopBringsBack == (1 \in active_monitors) ~> (1 \notin active_monitors)

(***************************************************************************)
(* Claims about the strength of generate_signal's signal, checked under    *)
(* SpecStrength and SpecGate.                                              *)
(***************************************************************************)
\* The order in which generate_signal evaluates its checks.
CheckOrder == <<"rsi", "macd", "ema", "bb">>

\* The positions in CheckOrder of the checks that fire on ch.
Firing(ch) == {i \in 1..4 : ch[CheckOrder[i]] # "NONE"}

\* The first check that fires on ch: the one that sets the action.
Decider(ch) == CHOOSE i \in Firing(ch) : \A j \in Firing(ch) : i <= j

\* ch without the checks that fire against the decider's direction.
WithoutOpposed(ch) ==
    [n \in DOMAIN ch |->
        IF Firing(ch) # {} /\ ch[n] # ch[CheckOrder[Decider(ch)]] THEN "NONE" ELSE ch[n]]

\* C26: the first check that fires decides the action, no later check
\* changes it, and the checks that fire in the opposite direction change
\* neither the action nor the strength.
C26_FirstDeciderWins ==
    (lastCall # NoCall /\ Firing(lastCall.checks) # {}) =>
        /\ lastCall.action = lastCall.checks[CheckOrder[Decider(lastCall.checks)]]
        /\ lastCall.action =
              BuildSignal(lastCall.pair, lastCall.time, WithoutOpposed(lastCall.checks)).action
        /\ lastCall.strength =
              BuildSignal(lastCall.pair, lastCall.time, WithoutOpposed(lastCall.checks)).strength

\* C26's case: RSI decides BUY, MACD fires SELL after it, EMA agrees with
\* RSI, and the signal is returned.
C26_Witness ==
    /\ lastCall.checks = [rsi |-> "BUY", macd |-> "SELL", ema |-> "BUY", bb |-> "NONE"]
    /\ lastCall.action = "BUY"
    /\ lastCall.strength = 2
    /\ lastCall.ret = "signal"

\* C27: the strength is the number of firing checks that agree with the
\* action, the decider not counted, whichever check is the decider.
C27_SetOrIncrement ==
    lastCall # NoCall =>
        lastCall.strength =
            Cardinality({i \in Firing(lastCall.checks) :
                            /\ i # Decider(lastCall.checks)
                            /\ lastCall.checks[CheckOrder[i]] = lastCall.action})

\* C28: generate_signal returns a signal only with an action set and a
\* strength of at least 2; on every outcome of the checks with a strength
\* below 2 it returns None and writes neither last_signals nor
\* profit_tracking.
C28_ActionableFromTwo ==
    lastCall # NoCall =>
        /\ lastCall.ret = "signal" =>
              (lastCall.action \in Directions /\ lastCall.strength >= 2 /\ Recorded)
        /\ lastCall.strength < 2 =>
              /\ lastCall.ret = "None"
              /\ IF lastCall.prior = NoRecord
                   THEN /\ lastCall.pair \notin DOMAIN last_signals
                        /\ \A i \in 1..Len(profit_tracking) :
                              profit_tracking[i].pair # lastCall.pair
                   ELSE last_signals[lastCall.pair] = lastCall.prior

\* C28's case: MACD sets BUY and EMA agrees, strength 1, for a pair without
\* record: None is returned and no record is made.
C28_Witness ==
    /\ lastCall.checks = [rsi |-> "NONE", macd |-> "BUY", ema |-> "BUY", bb |-> "NONE"]
    /\ lastCall.action = "BUY"
    /\ lastCall.strength = 1
    /\ lastCall.prior = NoRecord
    /\ lastCall.ret = "None"
    /\ lastCall.pair \notin DOMAIN last_signals

\* The entries of pair q in profit_tracking pt.
Tracked(pt, q) == {pt[i] : i \in {j \in 1..Len(pt) : pt[j].pair = q}}

\* C29: a generate_signal call (every step in which the clock does not
\* advance) that returns None leaves last_signals and profit_tracking as they
\* are; a call that returns a signal changes only the entries of its own pair.
C29_GatekeeperFrame ==
    [][nticks' = nticks =>
          IF lastCall'.ret = "None"
            THEN UNCHANGED <<last_signals, profit_tracking>>
            ELSE \A q \in Pairs \ {lastCall'.pair} :
                    /\ (q \in DOMAIN last_signals) = (q \in DOMAIN last_signals')
                    /\ q \in DOMAIN last_signals => last_signals'[q] = last_signals[q]
                    /\ Tracked(profit_tracking', q) = Tracked(profit_tracking, q)]_vars

\* C29's case: an actionable proposal was rejected in the cooldown of its
\* pair, 3599 seconds after the acceptance, while the other pair has a
\* record too.
C29_Witness ==
    /\ Proposed
    /\ lastCall.ret = "None"
    /\ lastCall.prior # NoRecord
    /\ SinceLast = 3599
    /\ DOMAIN last_signals = Pairs
    /\ last_signals[lastCall.pair] = lastCall.prior

(***************************************************************************)
(* Claims about the three leaves, checked under SpecFusion.                *)
(***************************************************************************)
\* The bullish and the bearish patterns that fired.
Bulls == fired \cap BullishPatterns

Bears == fired \cap BearishPatterns

\* Some bullish pattern that fired has a strictly higher base confidence than
\* every bearish pattern that fired.
BullsStronger == \E b \in Bulls : \A r \in Bears : PatternConfidence(b) > PatternConfidence(r)

TwiceScore == news + analyze_social_media

\* C32: the sentiment leaf returns (BUY, HIGH) iff the combined score s is
\* above 0.3, (SELL, HIGH) iff s < -0.3, (BUY, MEDIUM) iff 0.1 < s <= 0.3,
\* (SELL, MEDIUM) iff -0.3 <= s < -0.1, (HOLD, NONE) iff -0.1 <= s <= 0.1.
C32_SentimentThresholds ==
    fpc = "done" =>
        LET r == signals["sentiment"]
        IN  /\ Says(r, "BUY", "HIGH") <=> TwiceScore > 600
            /\ Says(r, "SELL", "HIGH") <=> TwiceScore < -600
            /\ Says(r, "BUY", "MEDIUM") <=> (200 < TwiceScore /\ TwiceScore <= 600)
            /\ Says(r, "SELL", "MEDIUM") <=> (-600 <= TwiceScore /\ TwiceScore < -200)
            /\ Says(r, "HOLD", "NONE") <=> (-200 <= TwiceScore /\ TwiceScore <= 200)

\* C32's case: a combined score of exactly 0.3 gave (BUY, MEDIUM).
C32_Witness ==
    /\ fpc = "done"
    /\ TwiceScore = 600
    /\ Says(signals["sentiment"], "BUY", "MEDIUM")

\* How many of the four indicators vote d.
Votes(d) == Cardinality({i \in Indicators : votes[i].v = d})

Opposite(d) == IF d = "BUY" THEN "SELL" ELSE "BUY"

\* C33: the technical leaf never returns a direction that the opposite
\* direction outvotes; its confidence is HIGH iff the returned direction has
\* at least 3 votes, MEDIUM iff 2, LOW iff 1; it returns (HOLD, NONE) iff no
\* indicator votes BUY or SELL; on equal non-zero counts it returns BUY.
C33_TechnicalConfluence ==
    fpc = "done" =>
        LET r == signals["technical"]
            d == r.sig.v
        IN  /\ d \in Directions => Votes(d) >= Votes(Opposite(d))
            /\ d \in Directions =>
                  /\ r.conf.v = "HIGH" <=> Votes(d) >= 3
                  /\ r.conf.v = "MEDIUM" <=> Votes(d) = 2
                  /\ r.conf.v = "LOW" <=> Votes(d) = 1
            /\ Says(r, "HOLD", "NONE") <=> (Votes("BUY") = 0 /\ Votes("SELL") = 0)
            /\ d \in Directions \cup {"HOLD"}
            /\ d = "HOLD" => r.conf.v = "NONE"
            /\ (Votes("BUY") = Votes("SELL") /\ Votes("BUY") > 0) => d = "BUY"

\* C33's case: two indicators vote BUY and two SELL, and the leaf returned
\* (BUY, MEDIUM).
C33_Witness ==
    /\ fpc = "done"
    /\ Votes("BUY") = 2
    /\ Votes("SELL") = 2
    /\ Says(signals["technical"], "BUY", "MEDIUM")

(***************************************************************************)
(* Claims about start_monitoring and stop_monitoring, checked under        *)
(* SpecMonitor.                                                            *)
(***************************************************************************)
\* The monitoring loops and the profit-tracking loops that are running.
MonitoringLoops == {c \in Chats : mpc[c] \in Live}

ProfitLoops == {t \in ProfitTasks : ppc[t] # "none"}

\* C34: whatever start_monitoring and stop_monitoring calls were made on the
\* SignalBroadcaster, at most one monitoring loop and at most one
\* profit-tracking loop are active.
C34_OneLoopEach ==
    /\ Cardinality(MonitoringLoops) <= 1
    /\ Cardinality(ProfitLoops) <= 1

(***************************************************************************)
(* Claims about delivery, checked under Spec.                              *)
(***************************************************************************)
\* C36: a signal is logged as broadcast only when send_message delivered it:
\* no signal is both logged as broadcast and undelivered.
C36_LoggedOnlyWhenSent == broadcasted \cap undelivered = {}

(***************************************************************************)
(* Claims about profit_tracking, checked under SpecTracking.               *)
(***************************************************************************)
\* The positions after pos that the iterator of a pass was still to yield
\* and whose entries are not older than 24 hours.
Unvisited(pt, pos, used) ==
    {i \in (pos + 1)..Len(pt) : i <= used /\ now - pt[i].entry_time <= ProfitWindow}

\* C35: a pass of update_profit_tracking ends only when every entry that is
\* not older than 24 hours was fetched in it (and, its fetch succeeding,
\* refreshed), also when another entry is deleted or added during the pass.
C35_PassVisitsAll ==
    [][\A t \in ProfitTasks :
          /\ ((\E ok \in BOOLEAN : ProfitFetchReturn(t, ok)) /\ ppc'[t] = "wait")
                => Unvisited(profit_tracking, piter[t].pos, piter[t].used) = {}
          /\ (ProfitWake(t) /\ running)
                => (ppc'[t] = "wait" => Unvisited(profit_tracking, 0, Len(profit_tracking)) = {})]_vars

\* C37: every pair of profit_tracking has a record in last_signals, and the
\* entry's action, entry_price and entry_time are the record's action, price
\* and timestamp.
C37_TrackingMatchesRecord ==
    \A i \in 1..Len(profit_tracking) :
        LET e == profit_tracking[i]
        IN  /\ e.pair \in DOMAIN last_signals
            /\ e.action = last_signals[e.pair].action
            /\ e.entry_price = last_signals[e.pair].price
            /\ e.entry_time = last_signals[e.pair].timestamp

\* C37's case: a pair was accepted a second time, at another price, in the
\* other direction and 7200 seconds later, while the entry of its first
\* acceptance was tracked.
C37_Witness ==
    /\ Len(profit_tracking) = 1
    /\ profit_tracking[1].entry_time = 7200
    /\ profit_tracking[1].entry_price = 2
    /\ profit_tracking[1].action = "SELL"
    /\ accepted[profit_tracking[1].pair] = <<0, 7200>>

====
